---- MODULE Spec2Model ----
(***************************************************************************)
(* Rain-water area over a sky line: the single-pass solver of              *)
(* Hill_Climbing_Basin_Detection.py and the recursive plateau solver of    *)
(* Plateau_Based_Water_Trapping.py and main.py.                            *)
(*                                                                         *)
(* Python lists are sequences; Python positions are 0-based, so the        *)
(* element at position i of a list s is At(s, i) = s[i + 1].  A dict is a  *)
(* function whose DOMAIN is its key set; the dicts of this program are     *)
(* filled in ascending position order, so iterating over one visits its    *)
(* keys in ascending order.                                                *)
(***************************************************************************)
EXTENDS Integers, Sequences, FiniteSets, TLC

\* Bounds of the explored inputs.
MaxLen == 5
MaxHeight == 3

\* Bounds of the inputs explored for the depth of the recursion: longer sky
\* lines over fewer heights.
DeepLen == 7
DeepHeight == 1

\* Heights offered as input: the non-negative ones and one negative value.
Heights == (0 - 1) .. MaxHeight

RECURSIVE SeqsOfLen(_)
SeqsOfLen(n) ==
    IF n = 0 THEN { << >> }
    ELSE { Append(s, h) : s \in SeqsOfLen(n - 1), h \in Heights }

Skylines == UNION { SeqsOfLen(n) : n \in 0 .. MaxLen }

\* The three programs of the repository.
Programs == { "hill", "plateau", "main" }

\* The value None of an optional position.
None == 0 - 1

----------------------------------------------------------------------------
\* Python list primitives.

At(s, i) == s[i + 1]

Positions(s) == 0 .. (Len(s) - 1)

Reverse(s) == [ i \in 1 .. Len(s) |-> s[Len(s) + 1 - i] ]

\* s[a:b] for 0 <= a
Slice(s, a, b) ==
    LET hi == IF b < Len(s) THEN b ELSE Len(s)
    IN  IF hi <= a THEN << >> ELSE [ i \in 1 .. (hi - a) |-> s[a + i] ]

RECURSIVE Sum(_)
Sum(s) == IF Len(s) = 0 THEN 0 ELSE s[1] + Sum(Tail(s))

\* max(s) of a non-empty list
Max(s) == CHOOSE m \in { s[i] : i \in 1 .. Len(s) } :
              \A i \in 1 .. Len(s) : s[i] <= m

Min2(a, b) == IF a <= b THEN a ELSE b

Max2(a, b) == IF a >= b THEN a ELSE b

Abs(a) == IF a < 0 THEN 0 - a ELSE a

\* max(keys, key=...): the first key, in iteration (ascending) order, whose
\* key value is the greatest; key maps each key to its key value.
MaxKey(keys, key) ==
    CHOOSE k \in keys :
        /\ \A j \in keys : key[j] <= key[k]
        /\ \A j \in keys : key[j] = key[k] => k <= j

----------------------------------------------------------------------------
\* Hill_Climbing_Basin_Detection.py

\* calculate_area(area_function, position, left_position, left_wall)
Hill_calculate_area_wide(area_function, position, left_position, left_wall) ==
    LET width == position - left_position
    IN  IF width <= 0 THEN 0
        ELSE left_wall * width
               - (At(area_function, position) - At(area_function, left_position + 1))

Hill_calculate_area_with_wall(area_function, position, left_position, left_wall) ==
    LET width == position - left_position - 1
    IN  IF width <= 0 THEN 0
        ELSE left_wall * width
               - (At(area_function, position) - At(area_function, left_position))

Hill_calculate_area(area_function, position, left_position, left_wall) ==
    LET width == position - left_position - 1
    IN  IF width <= 0 THEN 0
        ELSE LET mountain_area == At(area_function, position)
                                    - At(area_function, left_position + 1)
                 upper_area == left_wall * width
             IN  upper_area - mountain_area

ScanInit_seeded(sky_line, maximum_position) ==
    [ sky_line |-> sky_line,
      maximum_position |-> maximum_position,
      position |-> 0,
      left_wall |-> At(sky_line, 0),
      left_position |-> 0,
      in_basin |-> FALSE,
      ground_area_function |-> << At(sky_line, 0) >>,
      water_area |-> 0,
      done |-> FALSE ]

\* The locals of water_area_one_side before its loop.
ScanInit(sky_line, maximum_position) ==
    [ sky_line |-> sky_line,
      maximum_position |-> maximum_position,
      position |-> 0,
      left_wall |-> At(sky_line, 0),
      left_position |-> 0,
      in_basin |-> FALSE,
      ground_area_function |-> << 0 >>,
      water_area |-> 0,
      done |-> FALSE ]

\* One iteration of the loop of water_area_one_side; the loop is left by the
\* break at maximum_position or by exhausting the list.
ScanStep(st) ==
    IF st.position >= Len(st.sky_line) THEN [ st EXCEPT !.done = TRUE ]
    ELSE
    LET position == st.position
        height == At(st.sky_line, position)
    IN  IF position = st.maximum_position
        THEN [ st EXCEPT
                 !.water_area =
                     IF st.in_basin
                     THEN @ + Hill_calculate_area(st.ground_area_function, position,
                                                  st.left_position, st.left_wall)
                     ELSE @,
                 !.done = TRUE ]
        ELSE
        LET total_area == At(st.ground_area_function,
                             Len(st.ground_area_function) - 1) + height
            gaf == Append(st.ground_area_function, total_area)
        IN  IF st.left_wall <= height
            THEN [ st EXCEPT
                     !.ground_area_function = gaf,
                     !.water_area =
                         IF st.in_basin
                         THEN @ + Hill_calculate_area(gaf, position,
                                                      st.left_position, st.left_wall)
                         ELSE @,
                     !.left_wall = height,
                     !.left_position = position,
                     !.in_basin = FALSE,
                     !.position = position + 1 ]
            ELSE [ st EXCEPT
                     !.ground_area_function = gaf,
                     !.in_basin = TRUE,
                     !.position = position + 1 ]

\* The calculate_area call that the next iteration of the loop makes, if it
\* makes one: at the break the list as it stands is passed, on a new wall the
\* list with the current height already appended.
ScanCall(st) ==
    LET position == st.position
        height == At(st.sky_line, position)
        total_area == At(st.ground_area_function,
                         Len(st.ground_area_function) - 1) + height
        args(area_function) ==
            [ made |-> st.in_basin,
              area_function |-> area_function,
              position |-> position,
              left_position |-> st.left_position,
              left_wall |-> st.left_wall ]
    IN  IF st.done \/ position >= Len(st.sky_line)
        THEN [ args(st.ground_area_function) EXCEPT !.made = FALSE ]
        ELSE IF position = st.maximum_position
        THEN args(st.ground_area_function)
        ELSE IF st.left_wall <= height
        THEN args(Append(st.ground_area_function, total_area))
        ELSE [ args(st.ground_area_function) EXCEPT !.made = FALSE ]

RECURSIVE ScanRun(_)
ScanRun(st) == IF st.done THEN st.water_area ELSE ScanRun(ScanStep(st))

water_area_one_side(sky_line, maximum_position) ==
    ScanRun(ScanInit(sky_line, maximum_position))

\* Input validation of main: TRUE when the sky line is rejected.
Hill_rejects_short_only(sky_line) == Len(sky_line) < 3

Hill_rejects(sky_line) ==
    \/ Len(sky_line) < 3
    \/ \E i \in Positions(sky_line) : At(sky_line, i) < 0

\* maximum_positions, as the set of positions holding max(sky_line)
maximum_positions(sky_line) ==
    { i \in Positions(sky_line) : At(sky_line, i) = Max(sky_line) }

FirstOf(S) == CHOOSE i \in S : \A j \in S : i <= j

LastOf(S) == CHOOSE i \in S : \A j \in S : j <= i

\* right_line: the suffix from the last maximum, reversed
right_line(sky_line) ==
    Reverse(Slice(sky_line, LastOf(maximum_positions(sky_line)), Len(sky_line)))

\* Area between the first and the last maximum.
Hill_between_area_short(sky_line) ==
    LET mp == maximum_positions(sky_line)
        start_pos == FirstOf(mp)
        end_pos == LastOf(mp)
        width == end_pos - start_pos - 1
    IN  IF Cardinality(mp) > 1 /\ width > 0
        THEN Max(sky_line) * width - Sum(Slice(sky_line, start_pos + 2, end_pos))
        ELSE 0

Hill_between_area(sky_line) ==
    LET mp == maximum_positions(sky_line)
        start_pos == FirstOf(mp)
        end_pos == LastOf(mp)
        width == end_pos - start_pos - 1
    IN  IF Cardinality(mp) > 1 /\ width > 0
        THEN LET water_level == Max(sky_line)
                 ground_area == Sum(Slice(sky_line, start_pos + 1, end_pos))
                 max_water_area == water_level * width
             IN  max_water_area - ground_area
        ELSE 0

\* The whole driver as a function of its sky line.
second_algo_logic(sky_line) ==
    IF Hill_rejects(sky_line) THEN 0
    ELSE water_area_one_side(sky_line, FirstOf(maximum_positions(sky_line)))
           + water_area_one_side(right_line(sky_line), Len(right_line(sky_line)) - 1)
           + Hill_between_area(sky_line)

----------------------------------------------------------------------------
\* Plateau_Based_Water_Trapping.py and main.py: find_plateaus

Has(s, i) == 0 <= i /\ i < Len(s)

Put(plateaus, position, height) ==
    [ p \in (DOMAIN plateaus) \cup { position } |->
        IF p = position THEN height ELSE plateaus[p] ]

EmptyDict == [ p \in {} |-> 0 ]

\* The locals of find_plateaus: the loop position, the dict under
\* construction, and how the call ended once it has.
FPInit ==
    [ position |-> 0, plateaus |-> EmptyDict,
      outcome |-> "running", error_position |-> None ]

\* "Identify plateaus": the branch on the position, the same in both files.
\* sky_line[1] of a one-element list raises IndexError.
identify_plateaus_lax(sky_line, st) ==
    LET position == st.position
        height == At(sky_line, position)
        last_position == Len(sky_line) - 1
        isPlateau ==
            IF position = 0 THEN height >= At(sky_line, 1)
            ELSE IF position < last_position
                 THEN /\ height >= At(sky_line, position - 1)
                      /\ height >= At(sky_line, position + 1)
                 ELSE height > At(sky_line, position - 1)
    IN  IF position = 0 /\ ~Has(sky_line, 1)
        THEN [ st EXCEPT !.outcome = "IndexError" ]
        ELSE [ st EXCEPT
                 !.plateaus = IF isPlateau THEN Put(@, position, height) ELSE @,
                 !.position = position + 1 ]

identify_plateaus(sky_line, st) ==
    LET position == st.position
        height == At(sky_line, position)
        last_position == Len(sky_line) - 1
        isPlateau ==
            IF position = 0 THEN height > At(sky_line, 1)
            ELSE IF position < last_position
                 THEN /\ height >= At(sky_line, position - 1)
                      /\ height >= At(sky_line, position + 1)
                 ELSE height > At(sky_line, position - 1)
    IN  IF position = 0 /\ ~Has(sky_line, 1)
        THEN [ st EXCEPT !.outcome = "IndexError" ]
        ELSE [ st EXCEPT
                 !.plateaus = IF isPlateau THEN Put(@, position, height) ELSE @,
                 !.position = position + 1 ]

\* Plateau_Based_Water_Trapping.find_plateaus up to its loop: the two early
\* returns of an empty dict.
Plateau_find_plateaus_enter_unchecked(sky_line) ==
    IF Len(sky_line) = 0 THEN [ FPInit EXCEPT !.outcome = "returned" ]
    ELSE FPInit

Plateau_find_plateaus_enter(sky_line) ==
    IF Len(sky_line) = 0 THEN [ FPInit EXCEPT !.outcome = "returned" ]
    ELSE IF Len(sky_line) < 3 THEN [ FPInit EXCEPT !.outcome = "returned" ]
    ELSE FPInit

\* One iteration of the loop of Plateau_Based_Water_Trapping.find_plateaus,
\* or its return once the list is exhausted.
Plateau_find_plateaus_step(sky_line, st) ==
    IF st.position >= Len(sky_line) THEN [ st EXCEPT !.outcome = "returned" ]
    ELSE IF At(sky_line, st.position) < 0
         THEN [ st EXCEPT !.outcome = "ValueError",
                          !.error_position = st.position ]
         ELSE identify_plateaus(sky_line, st)

\* One iteration of the loop of main.find_plateaus, which validates nothing.
Main_find_plateaus_step(sky_line, st) ==
    IF st.position >= Len(sky_line) THEN [ st EXCEPT !.outcome = "returned" ]
    ELSE identify_plateaus(sky_line, st)

RECURSIVE Plateau_find_plateaus_run(_, _)
Plateau_find_plateaus_run(sky_line, st) ==
    IF st.outcome # "running" THEN st
    ELSE Plateau_find_plateaus_run(sky_line, Plateau_find_plateaus_step(sky_line, st))

Plateau_find_plateaus(sky_line) ==
    Plateau_find_plateaus_run(sky_line, Plateau_find_plateaus_enter(sky_line))

RECURSIVE Main_find_plateaus_run(_, _)
Main_find_plateaus_run(sky_line, st) ==
    IF st.outcome # "running" THEN st
    ELSE Main_find_plateaus_run(sky_line, Main_find_plateaus_step(sky_line, st))

Main_find_plateaus(sky_line) == Main_find_plateaus_run(sky_line, FPInit)

----------------------------------------------------------------------------
\* Plateau_Based_Water_Trapping.py and main.py: calculate_area

Restrict(plateaus, keys) == [ p \in keys |-> plateaus[p] ]

\* sum of sky_line over range(range_start + 1, range_end)
sub_area(sky_line, range_start, range_end) ==
    Sum(Slice(sky_line, range_start + 1, range_end))

RECURSIVE Plateau_calculate_area(_, _, _)
Plateau_calculate_area(sky_line, plateaus, boundary_peak_position) ==
    IF Cardinality(DOMAIN plateaus) < 2 THEN 0
    ELSE
    LET keys == DOMAIN plateaus
        highest_peak_position ==
            IF boundary_peak_position = None
            THEN MaxKey(keys, [ k \in keys |-> At(sky_line, k) ])
            ELSE boundary_peak_position
        second_highest_peak_position ==
            MaxKey(keys, [ k \in keys |-> IF k # highest_peak_position
                                       THEN At(sky_line, k) ELSE 0 ])
        height == Min2(At(sky_line, highest_peak_position),
                       At(sky_line, second_highest_peak_position))
        width == Abs(highest_peak_position - second_highest_peak_position) - 1
        max_area == height * width
        range_start == Min2(highest_peak_position, second_highest_peak_position)
        range_end == Max2(highest_peak_position, second_highest_peak_position)
        center_area == max_area - sub_area(sky_line, range_start, range_end)
        left_plateaus == Restrict(plateaus, { p \in keys : p <= range_start })
        right_plateaus == Restrict(plateaus, { p \in keys : p >= range_end })
        left_area ==
            IF Cardinality(DOMAIN left_plateaus) > 1
            THEN Plateau_calculate_area(sky_line, left_plateaus, range_start)
            ELSE 0
        right_area ==
            IF Cardinality(DOMAIN right_plateaus) > 1
            THEN Plateau_calculate_area(sky_line, right_plateaus, range_end)
            ELSE 0
    IN  IF width <= 0 THEN 0
        ELSE left_area + center_area + right_area

RECURSIVE Main_calculate_area(_, _, _)
Main_calculate_area(sky_line, plateaus, boundary_peak_position) ==
    IF Cardinality(DOMAIN plateaus) < 2 THEN 0
    ELSE
    LET keys == DOMAIN plateaus
        highest_peak_position ==
            IF boundary_peak_position = None
            THEN MaxKey(keys, [ k \in keys |-> At(sky_line, k) ])
            ELSE boundary_peak_position
        plateaus_copy == Restrict(plateaus, keys \ { highest_peak_position })
        second_highest_peak_position ==
            MaxKey(DOMAIN plateaus_copy,
                   [ k \in DOMAIN plateaus_copy |-> At(sky_line, k) ])
        height == Min2(At(sky_line, highest_peak_position),
                       At(sky_line, second_highest_peak_position))
        width == Abs(highest_peak_position - second_highest_peak_position) - 1
        max_area == height * width
        range_start == Min2(highest_peak_position, second_highest_peak_position)
        range_end == Max2(highest_peak_position, second_highest_peak_position)
        center_area == max_area - sub_area(sky_line, range_start, range_end)
        left_plateaus == Restrict(plateaus, { p \in keys : p <= range_start })
        right_plateaus == Restrict(plateaus, { p \in keys : p >= range_end })
        left_area ==
            IF Cardinality(DOMAIN left_plateaus) > 1
            THEN Main_calculate_area(sky_line, left_plateaus, range_start)
            ELSE 0
        right_area ==
            IF Cardinality(DOMAIN right_plateaus) > 1
            THEN Main_calculate_area(sky_line, right_plateaus, range_end)
            ELSE 0
    IN  IF width <= 0 THEN 0
        ELSE left_area + center_area + right_area

\* The two peaks a call of Plateau_Based_Water_Trapping.calculate_area with
\* at least 2 plateaus selects.
Plateau_peaks(sky_line, plateaus, boundary_peak_position) ==
    LET keys == DOMAIN plateaus
        highest_peak_position ==
            IF boundary_peak_position = None
            THEN MaxKey(keys, [ k \in keys |-> At(sky_line, k) ])
            ELSE boundary_peak_position
    IN  [ highest |-> highest_peak_position,
          second |-> MaxKey(keys, [ k \in keys |-> IF k # highest_peak_position
                                                   THEN At(sky_line, k) ELSE 0 ]) ]

\* The two peaks a call of main.calculate_area with at least 2 plateaus
\* selects.
Main_peaks(sky_line, plateaus, boundary_peak_position) ==
    LET keys == DOMAIN plateaus
        highest_peak_position ==
            IF boundary_peak_position = None
            THEN MaxKey(keys, [ k \in keys |-> At(sky_line, k) ])
            ELSE boundary_peak_position
        copy_keys == keys \ { highest_peak_position }
    IN  [ highest |-> highest_peak_position,
          second |-> MaxKey(copy_keys, [ k \in copy_keys |-> At(sky_line, k) ]) ]

range_start(pk) == Min2(pk.highest, pk.second)

range_end(pk) == Max2(pk.highest, pk.second)

width(pk) == Abs(pk.highest - pk.second) - 1

center_area(sky_line, pk) ==
    Min2(At(sky_line, pk.highest), At(sky_line, pk.second)) * width(pk)
      - sub_area(sky_line, range_start(pk), range_end(pk))

left_plateaus(plateaus, pk) ==
    Restrict(plateaus, { p \in DOMAIN plateaus : p <= range_start(pk) })

right_plateaus(plateaus, pk) ==
    Restrict(plateaus, { p \in DOMAIN plateaus : p >= range_end(pk) })

\* The locals of one call of calculate_area: its arguments, where it stands
\* (phase), the areas its recursive calls returned and the value it returns.
Frame(plateaus, boundary_peak_position) ==
    [ plateaus |-> plateaus,
      boundary_peak_position |-> boundary_peak_position,
      phase |-> "enter",
      left_area |-> 0,
      right_area |-> 0,
      value |-> 0 ]

\* The recursive calls a call makes.
left_call_swapped(plateaus, pk) == Frame(left_plateaus(plateaus, pk), range_end(pk))

left_call(plateaus, pk) == Frame(left_plateaus(plateaus, pk), range_start(pk))

right_call(plateaus, pk) == Frame(right_plateaus(plateaus, pk), range_end(pk))

\* find_plateaus followed by calculate_area without a boundary hint; the
\* outcome is that of find_plateaus when it raises.
Plateau_solver(sky_line) ==
    LET fp == Plateau_find_plateaus(sky_line)
    IN  [ outcome |-> fp.outcome,
          result |-> IF fp.outcome = "returned"
                     THEN Plateau_calculate_area(sky_line, fp.plateaus, None)
                     ELSE 0 ]

Main_solver(sky_line) ==
    LET fp == Main_find_plateaus(sky_line)
    IN  [ outcome |-> fp.outcome,
          result |-> IF fp.outcome = "returned"
                     THEN Main_calculate_area(sky_line, fp.plateaus, None)
                     ELSE 0 ]

----------------------------------------------------------------------------
\* One run of one program on one input.

VARIABLES
    input,       \* the sky line handed to the program
    program,     \* which program runs
    pc,          \* where the run stands
    scan,        \* the locals of the running water_area_one_side call
    calls,       \* how many times water_area_one_side has been called
    left_area,   \* main's left_area (Hill_Climbing_Basin_Detection.py)
    fp,          \* the locals of the find_plateaus call
    result,      \* the area returned
    outcome,     \* "running", "returned", or the exception raised
    stack,       \* the frames of the running calculate_area calls, innermost last
    hint,        \* boundary_peak_position of the outermost calculate_area call
    hinted_result \* the area calculate_area returned when given a hint

vars == << input, program, pc, scan, calls, left_area, fp, result, outcome,
           stack, hint, hinted_result >>

NoScan == [ ScanInit(<< 0 >>, 0) EXCEPT !.done = TRUE ]

Init ==
    /\ input \in Skylines
    /\ program \in Programs
    /\ pc = "start"
    /\ scan = NoScan
    /\ calls = 0
    /\ left_area = 0
    /\ fp = FPInit
    /\ result = 0
    /\ outcome = "running"
    /\ stack = << >>
    /\ hint = None
    /\ hinted_result = 0

\* Hill_Climbing_Basin_Detection.main: validation, then the call of the
\* left scan.
Hill_Start ==
    /\ program = "hill" /\ pc = "start"
    /\ IF Hill_rejects(input)
       THEN /\ pc' = "done"
            /\ result' = 0
            /\ outcome' = "returned"
            /\ UNCHANGED << scan, calls >>
       ELSE /\ pc' = "left_scan"
            /\ scan' = ScanInit(input, FirstOf(maximum_positions(input)))
            /\ calls' = calls + 1
            /\ UNCHANGED << result, outcome >>
    /\ UNCHANGED << stack, hint, hinted_result >>
    /\ UNCHANGED << input, program, left_area, fp >>

\* One iteration of the loop of the running water_area_one_side call.
Hill_ScanStep ==
    /\ program = "hill" /\ pc \in { "left_scan", "right_scan" }
    /\ ~scan.done
    /\ scan' = ScanStep(scan)
    /\ UNCHANGED << stack, hint, hinted_result >>
    /\ UNCHANGED << input, program, pc, calls, left_area, fp, result, outcome >>

\* The left scan returns; main reverses the right part and calls the scan
\* on it.
Hill_LeftReturn ==
    /\ program = "hill" /\ pc = "left_scan"
    /\ scan.done
    /\ left_area' = scan.water_area
    /\ scan' = ScanInit(right_line(input), Len(right_line(input)) - 1)
    /\ calls' = calls + 1
    /\ pc' = "right_scan"
    /\ UNCHANGED << stack, hint, hinted_result >>
    /\ UNCHANGED << input, program, fp, result, outcome >>

\* The right scan returns; main adds the area between the maxima and
\* returns the total.
Hill_RightReturn ==
    /\ program = "hill" /\ pc = "right_scan"
    /\ scan.done
    /\ result' = left_area + scan.water_area + Hill_between_area(input)
    /\ outcome' = "returned"
    /\ pc' = "done"
    /\ UNCHANGED << stack, hint, hinted_result >>
    /\ UNCHANGED << input, program, scan, calls, left_area, fp >>

\* How a find_plateaus call that has ended continues the run.
AfterFindPlateaus(st) ==
    IF st.outcome = "running" THEN pc' = "find_plateaus" /\ UNCHANGED outcome
    ELSE IF st.outcome = "returned" THEN pc' = "calculate_area" /\ UNCHANGED outcome
    ELSE pc' = "done" /\ outcome' = st.outcome

\* Plateau_Based_Water_Trapping.find_plateaus is called.
Plateau_Start ==
    /\ program = "plateau" /\ pc = "start"
    /\ fp' = Plateau_find_plateaus_enter(input)
    /\ AfterFindPlateaus(fp')
    /\ UNCHANGED << stack, hint, hinted_result >>
    /\ UNCHANGED << input, program, scan, calls, left_area, result >>

Plateau_LoopStep ==
    /\ program = "plateau" /\ pc = "find_plateaus"
    /\ fp' = Plateau_find_plateaus_step(input, fp)
    /\ AfterFindPlateaus(fp')
    /\ UNCHANGED << stack, hint, hinted_result >>
    /\ UNCHANGED << input, program, scan, calls, left_area, result >>

\* Plateau_Based_Water_Trapping.calculate_area is called on the plateaus
\* found, without a boundary hint.
Plateau_CalculateArea ==
    /\ program = "plateau" /\ pc = "calculate_area"
    /\ stack' = << Frame(fp.plateaus, None) >>
    /\ pc' = "in_calculate_area"
    /\ UNCHANGED << hint, hinted_result, result, outcome >>
    /\ UNCHANGED << input, program, scan, calls, left_area, fp >>

\* main.find_plateaus is called: it goes straight into its loop.
Main_Start ==
    /\ program = "main" /\ pc = "start"
    /\ fp' = FPInit
    /\ pc' = "find_plateaus"
    /\ UNCHANGED << stack, hint, hinted_result >>
    /\ UNCHANGED << input, program, scan, calls, left_area, result, outcome >>

Main_LoopStep ==
    /\ program = "main" /\ pc = "find_plateaus"
    /\ fp' = Main_find_plateaus_step(input, fp)
    /\ AfterFindPlateaus(fp')
    /\ UNCHANGED << stack, hint, hinted_result >>
    /\ UNCHANGED << input, program, scan, calls, left_area, result >>

\* main.calculate_area is called on the plateaus found, without a boundary
\* hint.
Main_CalculateArea ==
    /\ program = "main" /\ pc = "calculate_area"
    /\ stack' = << Frame(fp.plateaus, None) >>
    /\ pc' = "in_calculate_area"
    /\ UNCHANGED << hint, hinted_result, result, outcome >>
    /\ UNCHANGED << input, program, scan, calls, left_area, fp >>

\* The innermost running call of calculate_area and the peaks it selects.
Top == stack[Len(stack)]

PeaksOf(f) ==
    IF program = "main"
    THEN Main_peaks(input, f.plateaus, f.boundary_peak_position)
    ELSE Plateau_peaks(input, f.plateaus, f.boundary_peak_position)

SetTop(f) == [ stack EXCEPT ![Len(stack)] = f ]

\* calculate_area up to its recursive calls: the base case, the two peaks
\* and the early return on touching or adjacent peaks.
Calc_Enter ==
    /\ pc = "in_calculate_area" /\ Top.phase = "enter"
    /\ stack' =
         IF Cardinality(DOMAIN Top.plateaus) < 2
         THEN SetTop([ Top EXCEPT !.phase = "return", !.value = 0 ])
         ELSE IF width(PeaksOf(Top)) <= 0
         THEN SetTop([ Top EXCEPT !.phase = "return", !.value = 0 ])
         ELSE SetTop([ Top EXCEPT !.phase = "left" ])
    /\ UNCHANGED << input, program, pc, scan, calls, left_area, fp, result,
                    outcome, hint, hinted_result >>

\* The left part: a recursive call when it holds more than one plateau.
Calc_Left ==
    /\ pc = "in_calculate_area" /\ Top.phase = "left"
    /\ stack' =
         IF Cardinality(DOMAIN left_plateaus(Top.plateaus, PeaksOf(Top))) > 1
         THEN Append(SetTop([ Top EXCEPT !.phase = "wait_left" ]),
                     left_call(Top.plateaus, PeaksOf(Top)))
         ELSE SetTop([ Top EXCEPT !.phase = "right", !.left_area = 0 ])
    /\ UNCHANGED << input, program, pc, scan, calls, left_area, fp, result,
                    outcome, hint, hinted_result >>

\* The right part, and the total when no recursive call is made for it.
Calc_Right ==
    /\ pc = "in_calculate_area" /\ Top.phase = "right"
    /\ stack' =
         IF Cardinality(DOMAIN right_plateaus(Top.plateaus, PeaksOf(Top))) > 1
         THEN Append(SetTop([ Top EXCEPT !.phase = "wait_right" ]),
                     right_call(Top.plateaus, PeaksOf(Top)))
         ELSE SetTop([ Top EXCEPT
                         !.phase = "return",
                         !.right_area = 0,
                         !.value = Top.left_area + center_area(input, PeaksOf(Top)) ])
    /\ UNCHANGED << input, program, pc, scan, calls, left_area, fp, result,
                    outcome, hint, hinted_result >>

\* A call returns: to the caller waiting for its left or right area, or,
\* for the outermost call, to the program.
Calc_Return ==
    /\ pc = "in_calculate_area" /\ Top.phase = "return"
    /\ IF Len(stack) = 1
       THEN /\ stack' = << >>
            /\ pc' = IF hint = None THEN "done" ELSE "hinted_done"
            /\ result' = IF hint = None THEN Top.value ELSE result
            /\ hinted_result' = IF hint = None THEN hinted_result ELSE Top.value
            /\ outcome' = "returned"
       ELSE /\ LET caller == stack[Len(stack) - 1]
                   rest == SubSeq(stack, 1, Len(stack) - 2)
               IN  stack' =
                     IF caller.phase = "wait_left"
                     THEN Append(rest, [ caller EXCEPT !.phase = "right",
                                                       !.left_area = Top.value ])
                     ELSE Append(rest, [ caller EXCEPT
                                           !.phase = "return",
                                           !.right_area = Top.value,
                                           !.value = caller.left_area
                                                       + center_area(input, PeaksOf(caller))
                                                       + Top.value ])
            /\ UNCHANGED << pc, result, hinted_result, outcome >>
    /\ UNCHANGED << input, program, scan, calls, left_area, fp, hint >>

\* The plateaus of the greatest height.
highest_plateaus(plateaus) ==
    { h \in DOMAIN plateaus : \A k \in DOMAIN plateaus : plateaus[k] <= plateaus[h] }

\* calculate_area is called once more on the same plateaus, now with one of
\* the highest plateaus as boundary hint (test_boundary_peak_optimization).
Hinted_CalculateArea ==
    /\ program \in { "plateau", "main" } /\ pc = "done" /\ outcome = "returned"
    /\ \E h \in highest_plateaus(fp.plateaus) :
         /\ hint' = h
         /\ stack' = << Frame(fp.plateaus, h) >>
    /\ pc' = "in_calculate_area"
    /\ UNCHANGED << input, program, scan, calls, left_area, fp, result,
                    outcome, hinted_result >>

Next ==
    \/ Hill_Start
    \/ Hill_ScanStep
    \/ Hill_LeftReturn
    \/ Hill_RightReturn
    \/ Plateau_Start
    \/ Plateau_LoopStep
    \/ Plateau_CalculateArea
    \/ Main_Start
    \/ Main_LoopStep
    \/ Main_CalculateArea
    \/ Calc_Enter
    \/ Calc_Left
    \/ Calc_Right
    \/ Calc_Return

Spec == Init /\ [][Next]_vars

\* The recursive solvers alone, on longer non-negative sky lines, each run
\* followed by a second calculate_area call with a boundary hint.
RECURSIVE DeepSeqsOfLen(_)
DeepSeqsOfLen(n) ==
    IF n = 0 THEN { << >> }
    ELSE { Append(s, h) : s \in DeepSeqsOfLen(n - 1), h \in 0 .. DeepHeight }

DeepSkylines == UNION { DeepSeqsOfLen(n) : n \in 0 .. DeepLen }

DeepInit ==
    /\ input \in DeepSkylines
    /\ program \in { "plateau", "main" }
    /\ pc = "start"
    /\ scan = NoScan
    /\ calls = 0
    /\ left_area = 0
    /\ fp = FPInit
    /\ result = 0
    /\ outcome = "running"
    /\ stack = << >>
    /\ hint = None
    /\ hinted_result = 0

DeepNext ==
    \/ Plateau_Start
    \/ Plateau_LoopStep
    \/ Plateau_CalculateArea
    \/ Main_Start
    \/ Main_LoopStep
    \/ Main_CalculateArea
    \/ Calc_Enter
    \/ Calc_Left
    \/ Calc_Right
    \/ Calc_Return
    \/ Hinted_CalculateArea

DeepSpec == DeepInit /\ [][DeepNext]_vars

----------------------------------------------------------------------------
\* Vocabulary of the properties.

\* A valid sky line: at least 3 non-negative heights.
Valid(s) == Len(s) >= 3 /\ \A i \in Positions(s) : At(s, i) >= 0

NonNegative(s) == \A i \in Positions(s) : At(s, i) >= 0

PrefixMax(s, p) == Max(Slice(s, 0, p + 1))

SuffixMax(s, p) == Max(Slice(s, p, Len(s)))

\* The reference trapped area: at every position, the lower of the highest
\* wall to its left and to its right, minus its own height.
RECURSIVE ReferenceFrom(_, _)
ReferenceFrom(s, p) ==
    IF p >= Len(s) THEN 0
    ELSE Min2(PrefixMax(s, p), SuffixMax(s, p)) - At(s, p) + ReferenceFrom(s, p + 1)

ReferenceArea(s) == ReferenceFrom(s, 0)

Finished == pc = "done"

TypeOK ==
    /\ input \in Skylines
    /\ program \in Programs
    /\ pc \in { "start", "left_scan", "right_scan", "find_plateaus",
                "calculate_area", "in_calculate_area", "done", "hinted_done" }
    /\ outcome \in { "running", "returned", "ValueError", "IndexError" }
    /\ calls \in 0 .. 2

----------------------------------------------------------------------------
\* Properties.

\* What a program returns for a sky line, as a function of the sky line.
SolverResult(prog, s) ==
    IF prog = "hill" THEN [ outcome |-> "returned", result |-> second_algo_logic(s) ]
    ELSE IF prog = "plateau" THEN Plateau_solver(s)
    ELSE Main_solver(s)

HasNegative(s) == \E i \in Positions(s) : At(s, i) < 0

LowestNegative(s) ==
    CHOOSE i \in Positions(s) :
        /\ At(s, i) < 0
        /\ \A j \in Positions(s) : At(s, j) < 0 => i <= j

StrictlyAscending(s) == \A i \in 1 .. (Len(s) - 1) : s[i] < s[i + 1]

StrictlyDescending(s) == \A i \in 1 .. (Len(s) - 1) : s[i] > s[i + 1]

Constant(s) == \A i \in 1 .. (Len(s) - 1) : s[i] = s[i + 1]

\* The positions the plateau rule of the data model selects.
PlateauPositions(s) ==
    LET n == Len(s)
    IN  { p \in Positions(s) :
            \/ p = 0 /\ At(s, 0) > At(s, 1)
            \/ p = n - 1 /\ At(s, n - 1) > At(s, n - 2)
            \/ 0 < p /\ p < n - 1 /\ At(s, p) >= At(s, p - 1) /\ At(s, p) >= At(s, p + 1) }

\* C1: on every valid sky line the recursive solver of
\* Plateau_Based_Water_Trapping.py returns the same integer as the
\* single-pass solver.
C1_Agreement ==
    (Finished /\ program = "plateau" /\ Valid(input))
        => (outcome = "returned" /\ result = second_algo_logic(input))

\* C2: on every valid sky line the single-pass solver returns the reference
\* trapped area, the sum over the positions of min(max to the left, max to
\* the right) minus the own height.
C2_SinglePassIsReference ==
    (Finished /\ program = "hill" /\ Valid(input))
        => (outcome = "returned" /\ result = ReferenceArea(input))

\* A valid sky line on which both one-sided scans of the single-pass solver
\* found water.
C2_Witness ==
    /\ Finished /\ program = "hill" /\ Valid(input)
    /\ calls = 2
    /\ left_area > 0
    /\ scan.water_area > 0

\* C3: on every valid sky line each solver, recursive (both files) and
\* single-pass, returns a result >= 0.
C3_NonNegative ==
    (Finished /\ Valid(input)) => (outcome = "returned" /\ result >= 0)

\* C4: on every valid sky line each solver returns the same value for the
\* sky line and for its reversal.
C4_Symmetry ==
    (Finished /\ Valid(input))
        => /\ outcome = "returned"
           /\ SolverResult(program, Reverse(input)).outcome = "returned"
           /\ result = SolverResult(program, Reverse(input)).result

C6_MonotoneOrFlatIsZero ==
    (Finished /\ Valid(input)
       /\ (StrictlyAscending(input) \/ StrictlyDescending(input) \/ Constant(input)))
        => (outcome = "returned" /\ result = 0)

\* The single-pass solver has finished on a constant sky line of positive
\* height.
C6_Witness ==
    /\ Finished /\ program = "hill" /\ Valid(input)
    /\ Constant(input) /\ At(input, 0) > 0
    /\ calls = 2

\* C7: on every input with a negative height or fewer than 3 elements the
\* single-pass driver never calls water_area_one_side and returns 0.
C7_RejectBeforeScan ==
    (program = "hill" /\ ~Valid(input))
        => /\ calls = 0
           /\ pc \in { "start", "done" }
           /\ Finished => (outcome = "returned" /\ result = 0)

\* The single-pass driver has finished on a sky line of at least 3 heights,
\* one of them negative.
C7_Witness ==
    /\ Finished /\ program = "hill"
    /\ Len(input) >= 3 /\ HasNegative(input)

\* C8: on every list of any length with a negative entry,
\* Plateau_Based_Water_Trapping.find_plateaus raises a validation error
\* naming the lowest position that holds a negative entry.
C8_NegativeAlwaysRaises ==
    (program = "plateau" /\ pc \in { "calculate_area", "done" } /\ HasNegative(input))
        => /\ fp.outcome = "ValueError"
           /\ fp.error_position = LowestNegative(input)

\* C9: on every valid sky line find_plateaus returns the mapping whose keys
\* are exactly the positions selected by the plateau rule and whose value at
\* each key is the height there.
C9_PlateauRule ==
    (program \in { "plateau", "main" } /\ Valid(input)
       /\ pc \in { "calculate_area", "done" })
        => /\ fp.outcome = "returned"
           /\ DOMAIN fp.plateaus = PlateauPositions(input)
           /\ \A p \in DOMAIN fp.plateaus : fp.plateaus[p] = At(input, p)

\* find_plateaus has returned on a flat sky line of at least 4 heights: the
\* interior positions are plateaus and the two ends are not.
C9_Witness ==
    /\ program = "plateau" /\ pc = "calculate_area"
    /\ Valid(input) /\ Constant(input) /\ Len(input) >= 4
    /\ DOMAIN fp.plateaus = 1 .. (Len(input) - 2)

\* C10: on every list of length 0, 1 or 2, find_plateaus of main.py and of
\* Plateau_Based_Water_Trapping.py returns an empty mapping without raising.
C10_ShortGivesEmptyMapping ==
    (program \in { "plateau", "main" } /\ Len(input) < 3
       /\ pc \in { "calculate_area", "done" })
        => /\ fp.outcome = "returned"
           /\ fp.plateaus = EmptyDict

\* A one-sided scan of the single-pass driver is running or has returned.
Scanning == program = "hill" /\ pc \in { "left_scan", "right_scan", "done" } /\ calls > 0

\* The step that reaches the stop position while the scan is in a basin.
FinalBasinStep ==
    /\ Hill_ScanStep
    /\ scan.position = scan.maximum_position
    /\ scan.in_basin

\* sum of the heights strictly between two positions of the scanned list
GroundBetween(st, left, right) == Sum(Slice(st.sky_line, left + 1, right))

\* C14 as stated: the final basin is closed with the height at the stop
\* position as the water level.
C14_StopHeightIsWall ==
    [][ FinalBasinStep =>
          scan'.water_area - scan.water_area =
              At(scan.sky_line, scan.maximum_position)
                  * (scan.maximum_position - scan.left_position - 1)
                - GroundBetween(scan, scan.left_position, scan.maximum_position) ]_vars

\* C14 amended: the final basin is closed with left_wall, the height at
\* left_position, as the water level: the area added is
\* sky_line[left_position] * (stop - left_position - 1) minus the heights
\* strictly between left_position and the stop position.
C14_LeftWallIsWall ==
    [][ FinalBasinStep =>
          /\ scan.left_wall = At(scan.sky_line, scan.left_position)
          /\ scan'.water_area - scan.water_area =
                 scan.left_wall * (scan.maximum_position - scan.left_position - 1)
                   - GroundBetween(scan, scan.left_position, scan.maximum_position) ]_vars

\* A scan has closed its final basin at a stop position higher than the
\* left wall.
C14_Witness ==
    /\ Scanning
    /\ scan.done /\ scan.in_basin
    /\ scan.position = scan.maximum_position
    /\ scan.left_wall < At(scan.sky_line, scan.maximum_position)
    /\ scan.water_area > 0

\* C15: at every step of a scan the prefix structure starts with 0, grows by
\* the height of each scanned position, and every calculate_area call finds
\* both its indices inside the structure and subtracts exactly the heights
\* strictly between left_position and position.
C15_PrefixStructure ==
    Scanning =>
        LET g == scan.ground_area_function
            c == ScanCall(scan)
        IN  /\ Len(g) >= 1 /\ At(g, 0) = 0
            /\ Len(g) = scan.position + 1
            /\ \A i \in 0 .. (Len(g) - 2) : At(g, i + 1) - At(g, i) = At(scan.sky_line, i)
            /\ c.made =>
                 /\ Has(c.area_function, c.position)
                 /\ Has(c.area_function, c.left_position + 1)
                 /\ At(c.area_function, c.position)
                      - At(c.area_function, c.left_position + 1)
                    = GroundBetween(scan, c.left_position, c.position)

\* A scan is about to close a basin on a new wall after several positions
\* of positive height.
C15_Witness ==
    /\ Scanning
    /\ ScanCall(scan).made
    /\ scan.position # scan.maximum_position
    /\ scan.position - scan.left_position >= 3
    /\ GroundBetween(scan, scan.left_position, scan.position) > 0

\* What calculate_area of the running program returns, as a function of
\* its arguments.
calculate_area_of(prog, sky_line, plateaus, boundary_peak_position) ==
    IF prog = "main"
    THEN Main_calculate_area(sky_line, plateaus, boundary_peak_position)
    ELSE Plateau_calculate_area(sky_line, plateaus, boundary_peak_position)

\* The area of a part of the plateaus as the recursion computes it: a
\* recursive call when the part holds more than one plateau, else 0.
part_area(prog, sky_line, f) ==
    IF Cardinality(DOMAIN f.plateaus) > 1
    THEN calculate_area_of(prog, sky_line, f.plateaus, f.boundary_peak_position)
    ELSE 0

\* A call of calculate_area that found its two peaks touching or adjacent
\* is about to return.
ReturnsOnAdjacentPeaks(f) ==
    /\ f.phase = "return"
    /\ Cardinality(DOMAIN f.plateaus) >= 2
    /\ width(PeaksOf(f)) <= 0

\* C11: a call whose two peaks are touching or adjacent still returns the
\* areas of the plateaus left of range_start and right of range_end; only
\* its center contribution is 0.
C11_AdjacentPeaksStillRecurse ==
    (pc = "in_calculate_area" /\ Valid(input) /\ ReturnsOnAdjacentPeaks(Top))
        => Top.value = part_area(program, input, left_call(Top.plateaus, PeaksOf(Top)))
                         + part_area(program, input, right_call(Top.plateaus, PeaksOf(Top)))

\* C12: on a valid sky line, calculate_area with one of the highest
\* plateaus as boundary hint returns the same value as without a hint.
C12_HintChangesNothing ==
    (pc = "hinted_done" /\ Valid(input)) => hinted_result = result

\* C13: every recursive call of calculate_area gets a strict subset of its
\* caller's plateaus and a boundary hint that is one of them, and the number
\* of nested calls never exceeds the number of plateaus (one call when there
\* are none).
C13_RecursionShrinks ==
    (pc = "in_calculate_area" /\ Valid(input))
        => /\ \A i \in 2 .. Len(stack) :
                /\ DOMAIN stack[i].plateaus \subseteq DOMAIN stack[i - 1].plateaus
                /\ DOMAIN stack[i].plateaus # DOMAIN stack[i - 1].plateaus
                /\ stack[i].boundary_peak_position \in DOMAIN stack[i].plateaus
           /\ Len(stack) <= Max2(1, Cardinality(DOMAIN fp.plateaus))

\* A recursive call is running two levels below the outermost call.
C13_Witness ==
    /\ pc = "in_calculate_area" /\ hint = None /\ Valid(input)
    /\ Len(stack) >= 3
    /\ Top.phase = "return" /\ Top.value > 0

\* Every run comes to an end.
Terminated == pc \in { "done", "hinted_done" }

FairSpec == DeepSpec /\ WF_vars(DeepNext)

C13_Terminates == <>Terminated

====
